---- MODULE Spec2Model ----
(***************************************************************************)
(* Model of the LLM output validator of cosmo.ai:                          *)
(*   - the destructive-command classifier (isDestructiveCommand over       *)
(*     DESTRUCTIVE_COMMAND_PATTERNS) and the DryRunValidator               *)
(*     (validateCommand, makeDryRunSafe);                                  *)
(*   - the zod schemas BoltActionSchema, BoltArtifactSchema and            *)
(*     LLMResponseSchema and the LLMOutputValidator entry points.          *)
(* Strings the code inspects character by character (shell commands) are   *)
(* sequences of one-character strings.                                     *)
(***************************************************************************)
EXTENDS Integers, Sequences, FiniteSets, TLC

VARIABLES
    patternTable,   \* the module-level array DESTRUCTIVE_COMMAND_PATTERNS
    command,        \* the command string under test (Spec)
    call,           \* the last call made on `command` and what it returned (Spec)
    callerCall,     \* per caller, its last call and result (SpecCallers)
    rawData,        \* the untyped value handed to the validator (SpecValidator)
    validation      \* the last LLMOutputValidator call on rawData and its outcome

vars == <<patternTable, command, call, callerCall, rawData, validation>>

\* ------------------------------------------------------------------ bounds

\* Commands are concatenations of at most MaxTokens tokens.
MaxTokens == 3

\* Number of independent callers of the classifier core.
NumCallers == 2

\* Longest actions array of the artifacts checked.
MaxActions == 2

\* Longest artifacts array of the responses checked.
MaxArtifacts == 2

\* ------------------------------------------------------- character classes

LowerLetters == <<"a", "b", "c", "d", "e", "f", "g", "h", "i", "j", "k", "l", "m",
                  "n", "o", "p", "q", "r", "s", "t", "u", "v", "w", "x", "y", "z">>

UpperLetters == <<"A", "B", "C", "D", "E", "F", "G", "H", "I", "J", "K", "L", "M",
                  "N", "O", "P", "Q", "R", "S", "T", "U", "V", "W", "X", "Y", "Z">>

Digits == <<"0", "1", "2", "3", "4", "5", "6", "7", "8", "9">>

Range(f) == {f[i] : i \in DOMAIN f}

SpaceChars == {" ", "\t", "\n", "\r"}

LineTerminators == {"\n", "\r"}

UpperChars == Range(UpperLetters)

LetterChars == Range(LowerLetters) \cup Range(UpperLetters)

WordChars == LetterChars \cup Range(Digits) \cup {"_"}

\* \s of a JavaScript regular expression, and what String.prototype.trim removes.
IsSpace(c) == c \in SpaceChars

\* What `.` does not match.
IsLineTerminator(c) == c \in LineTerminators

\* \w
IsWordChar(c) == c \in WordChars

\* [a-z] under the i flag
IsLetter(c) == c \in LetterChars

SetMin(S) == CHOOSE m \in S : \A n \in S : m <= n

SetMax(S) == CHOOSE m \in S : \A n \in S : m >= n

\* ------------------------------------------------------- string primitives

\* String.prototype.trim
trim(s) ==
    LET keep == {i \in 1..Len(s) : ~IsSpace(s[i])}
    IN  IF keep = {} THEN <<>> ELSE SubSeq(s, SetMin(keep), SetMax(keep))

LowerChar(c) ==
    IF c \in UpperChars
    THEN LowerLetters[CHOOSE k \in 1..26 : UpperLetters[k] = c]
    ELSE c

\* String.prototype.toLowerCase
toLowerCase(s) == [i \in 1..Len(s) |-> LowerChar(s[i])]

\* The text of s from position i on.
From(s, i) == IF i > Len(s) THEN <<>> ELSE SubSeq(s, i, Len(s))

\* The literal lit occurs in s at position i.
HasAt(s, i, lit) ==
    /\ i + Len(lit) - 1 <= Len(s)
    /\ \A k \in 1..Len(lit) : s[i + k - 1] = lit[k]

\* Position after a greedy \s* that starts at position i.
SkipSpace(s, i) ==
    LET stop == {j \in i..Len(s) : ~IsSpace(s[j])}
    IN  IF stop = {} THEN Len(s) + 1 ELSE SetMin(stop)

\* Position after a greedy [a-z]* (i flag) that starts at position i.
SkipLetters(s, i) ==
    LET stop == {j \in i..Len(s) : ~IsLetter(s[j])}
    IN  IF stop = {} THEN Len(s) + 1 ELSE SetMin(stop)

\* String.prototype.includes for a one-character needle
includes(s, c) == \E i \in 1..Len(s) : s[i] = c

\* --------------------------------------------------- the regular expressions

\* /^\s*<word>\s+/
MatchWordThenSpace(s, word) ==
    LET i == SkipSpace(s, 1)
    IN  /\ HasAt(s, i, word)
        /\ i + Len(word) <= Len(s)
        /\ IsSpace(s[i + Len(word)])

\* /^\s*rm\s+<flag>/
MatchRmFlag(s, flag) ==
    /\ MatchWordThenSpace(s, <<"r", "m">>)
    /\ HasAt(s, SkipSpace(s, SkipSpace(s, 1) + 2), flag)

\* /^\s*>.*[\w]/
MatchTruncate(s) ==
    LET i == SkipSpace(s, 1)
    IN  /\ i <= Len(s)
        /\ s[i] = ">"
        /\ \E j \in (i + 1)..Len(s) :
              /\ IsWordChar(s[j])
              /\ \A k \in (i + 1)..(j - 1) : ~IsLineTerminator(s[k])

\* /^\s*:\s*>/
MatchColonTruncate(s) ==
    LET i == SkipSpace(s, 1)
    IN  /\ i <= Len(s)
        /\ s[i] = ":"
        /\ HasAt(s, SkipSpace(s, i + 1), <<">">>)

\* /mv\s+.*\/dev\/null/ (not anchored)
MatchMvDevNull(s) ==
    \E i \in 1..Len(s) :
        /\ HasAt(s, i, <<"m", "v">>)
        /\ \E e \in (i + 2)..Len(s) :           \* \s+ is s[i+2..e]
              /\ \A k \in (i + 2)..e : IsSpace(s[k])
              /\ \E j \in (e + 1)..Len(s) :     \* .* is s[e+1..j-1]
                    /\ \A k \in (e + 1)..(j - 1) : ~IsLineTerminator(s[k])
                    /\ HasAt(s, j, <<"/", "d", "e", "v", "/", "n", "u", "l", "l">>)

\* RegExp.prototype.test for the patterns of the table, named by their source text.
test(pattern, s) ==
    CASE pattern = "^\\s*rm\\s+"           -> MatchWordThenSpace(s, <<"r", "m">>)
      [] pattern = "^\\s*rmdir\\s+"        -> MatchWordThenSpace(s, <<"r", "m", "d", "i", "r">>)
      [] pattern = "^\\s*rm\\s+-r"         -> MatchRmFlag(s, <<"-", "r">>)
      [] pattern = "^\\s*rm\\s+-rf"        -> MatchRmFlag(s, <<"-", "r", "f">>)
      [] pattern = "^\\s*>.*[\\w]"         -> MatchTruncate(s)
      [] pattern = "^\\s*:\\s*>"           -> MatchColonTruncate(s)
      [] pattern = "mv\\s+.*\\/dev\\/null" -> MatchMvDevNull(s)
      [] pattern = "^\\s*dd\\s+"           -> MatchWordThenSpace(s, <<"d", "d">>)

\* ------------------------------------------------------------ the classifier

\* The table with the recursive-delete entries declared before the bare one.
DESTRUCTIVE_COMMAND_PATTERNS_SpecificFirst == <<
    [pattern |-> "^\\s*rm\\s+-rf", reason |-> "rm -rf command (force recursive deletion)", severity |-> "critical"],
    [pattern |-> "^\\s*rm\\s+-r", reason |-> "rm -r command (recursive deletion)", severity |-> "critical"],
    [pattern |-> "^\\s*rm\\s+", reason |-> "rm command (file deletion)", severity |-> "critical"],
    [pattern |-> "^\\s*rmdir\\s+", reason |-> "rmdir command (directory deletion)", severity |-> "critical"],
    [pattern |-> "^\\s*>.*[\\w]", reason |-> "file truncation with > operator", severity |-> "high"],
    [pattern |-> "^\\s*:\\s*>", reason |-> "dangerous :> truncation", severity |-> "critical"],
    [pattern |-> "mv\\s+.*\\/dev\\/null", reason |-> "moving file to /dev/null", severity |-> "critical"],
    [pattern |-> "^\\s*dd\\s+", reason |-> "dd command (direct disk writing)", severity |-> "critical"] >>

DESTRUCTIVE_COMMAND_PATTERNS == <<
    [pattern |-> "^\\s*rm\\s+", reason |-> "rm command (file deletion)", severity |-> "critical"],
    [pattern |-> "^\\s*rmdir\\s+", reason |-> "rmdir command (directory deletion)", severity |-> "critical"],
    [pattern |-> "^\\s*rm\\s+-r", reason |-> "rm -r command (recursive deletion)", severity |-> "critical"],
    [pattern |-> "^\\s*rm\\s+-rf", reason |-> "rm -rf command (force recursive deletion)", severity |-> "critical"],
    [pattern |-> "^\\s*>.*[\\w]", reason |-> "file truncation with > operator", severity |-> "high"],
    [pattern |-> "^\\s*:\\s*>", reason |-> "dangerous :> truncation", severity |-> "critical"],
    [pattern |-> "mv\\s+.*\\/dev\\/null", reason |-> "moving file to /dev/null", severity |-> "critical"],
    [pattern |-> "^\\s*dd\\s+", reason |-> "dd command (direct disk writing)", severity |-> "critical"] >>

\* The for...of loop of isDestructiveCommand from entry i on.
RECURSIVE ScanPatterns(_, _, _)
ScanPatterns(table, trimmedCommand, i) ==
    IF i > Len(table)
    THEN [isDestructive |-> FALSE]
    ELSE IF test(table[i].pattern, trimmedCommand)
         THEN [isDestructive |-> TRUE, reason |-> table[i].reason, severity |-> table[i].severity]
         ELSE ScanPatterns(table, trimmedCommand, i + 1)

\* The loop taken from the last entry to the first.
RECURSIVE ScanPatternsBackwards(_, _, _)
ScanPatternsBackwards(table, trimmedCommand, i) ==
    IF i > Len(table)
    THEN [isDestructive |-> FALSE]
    ELSE LET e == table[Len(table) + 1 - i]
         IN  IF test(e.pattern, trimmedCommand)
             THEN [isDestructive |-> TRUE, reason |-> e.reason, severity |-> e.severity]
             ELSE ScanPatternsBackwards(table, trimmedCommand, i + 1)

isDestructiveCommandLastMatch(table, cmd) ==
    ScanPatternsBackwards(table, toLowerCase(trim(cmd)), 1)

isDestructiveCommand(table, cmd) ==
    ScanPatterns(table, toLowerCase(trim(cmd)), 1)

\* The value of an object's property, undefined when the object has none.
Undefined == "undefined"

Prop(obj, key) == IF key \in DOMAIN obj THEN obj[key] ELSE Undefined

\* ------------------------------------------------------------ DryRunValidator

\* String.prototype.toUpperCase on the severities of the table.
toUpperCase(severity) ==
    CASE severity = "critical" -> "CRITICAL"
      [] severity = "high"     -> "HIGH"
      [] severity = "medium"   -> "MEDIUM"

Quote == <<"\"">>

EchoWouldExecute ==
    <<"e", "c", "h", "o", " ", "\"", "D", "R", "Y", " ", "R", "U", "N", ":", " ",
      "W", "o", "u", "l", "d", " ", "e", "x", "e", "c", "u", "t", "e", ":", " ">>

EchoWouldDelete ==
    <<"e", "c", "h", "o", " ", "\"", "D", "R", "Y", " ", "R", "U", "N", " ", "-", " ",
      "W", "o", "u", "l", "d", " ", "d", "e", "l", "e", "t", "e", ":", " ">>

EchoWouldCopy ==
    <<"e", "c", "h", "o", " ", "\"", "D", "R", "Y", " ", "R", "U", "N", " ", "-", " ",
      "W", "o", "u", "l", "d", " ", "c", "o", "p", "y", ":", " ">>

EchoWouldMove ==
    <<"e", "c", "h", "o", " ", "\"", "D", "R", "Y", " ", "R", "U", "N", " ", "-", " ",
      "W", "o", "u", "l", "d", " ", "m", "o", "v", "e", ":", " ">>

EchoWouldTruncate ==
    <<"e", "c", "h", "o", " ", "\"", "D", "R", "Y", " ", "R", "U", "N", " ", "-", " ",
      "W", "o", "u", "l", "d", " ", "t", "r", "u", "n", "c", "a", "t", "e", "/",
      "w", "r", "i", "t", "e", " ", "t", "o", " ", "f", "i", "l", "e", ":", " ">>

EchoDryRun ==
    <<"e", "c", "h", "o", " ", "\"", "D", "R", "Y", " ", "R", "U", "N", ":", " ">>

\* The template `DESTRUCTIVE OPERATION [${severity?.toUpperCase() || 'MEDIUM'}]: ${reason}`,
\* as its four segments.
WarningText(severity, reason) ==
    <<"DESTRUCTIVE OPERATION [",
      IF severity = Undefined THEN "MEDIUM" ELSE toUpperCase(severity),
      "]: ", reason>>

\* validateCommand without the warning: the property is never assigned.
validateCommandNoWarning(table, cmd) ==
    LET c == isDestructiveCommand(table, cmd)
        result == [isDryRun |-> TRUE, command |-> cmd,
                   isDestructive |-> c.isDestructive, reason |-> Prop(c, "reason")]
    IN  IF c.isDestructive
        THEN result @@ [dryRunCommand |-> EchoWouldExecute \o cmd \o Quote]
        ELSE result

validateCommand(table, cmd) ==
    LET c == isDestructiveCommand(table, cmd)
        isDestructive == c.isDestructive
        reason == Prop(c, "reason")
        severity == Prop(c, "severity")
        result == [isDryRun |-> TRUE, command |-> cmd,
                   isDestructive |-> isDestructive, reason |-> reason]
    IN  IF isDestructive
        THEN result @@ [warning |-> WarningText(severity, reason),
                        dryRunCommand |-> EchoWouldExecute \o cmd \o Quote]
        ELSE result

\* trimmedCommand.replace(/^rm\s+-?[a-z]*\s*/i, '')
StripRm(t) ==
    IF /\ Len(t) >= 3
       /\ toLowerCase(SubSeq(t, 1, 2)) = <<"r", "m">>
       /\ IsSpace(t[3])
    THEN LET afterSpace == SkipSpace(t, 3)
             afterDash == IF HasAt(t, afterSpace, <<"-">>) THEN afterSpace + 1 ELSE afterSpace
             afterLetters == SkipLetters(t, afterDash)
         IN  From(t, SkipSpace(t, afterLetters))
    ELSE t

\* trimmedCommand.replace(/^.*>\s*/, '')
StripThroughLastRedirect(t) ==
    LET ends == {j \in 1..Len(t) : t[j] = ">" /\ \A k \in 1..(j - 1) : ~IsLineTerminator(t[k])}
    IN  IF ends = {} THEN t ELSE From(t, SkipSpace(t, SetMax(ends) + 1))

\* /^(cp|mv)\s+/
MatchCpOrMv(t) ==
    /\ HasAt(t, 1, <<"c", "p">>) \/ HasAt(t, 1, <<"m", "v">>)
    /\ Len(t) >= 3
    /\ IsSpace(t[3])

makeDryRunSafe(cmd) ==
    LET trimmedCommand == trim(cmd)
    IN  IF MatchWordThenSpace(trimmedCommand, <<"r", "m">>)
        THEN EchoWouldDelete \o StripRm(trimmedCommand) \o Quote
        ELSE IF MatchCpOrMv(trimmedCommand)
        THEN (IF HasAt(trimmedCommand, 1, <<"c", "p">>) THEN EchoWouldCopy ELSE EchoWouldMove)
                 \o trimmedCommand \o Quote
        ELSE IF includes(trimmedCommand, ">")
        THEN EchoWouldTruncate \o StripThroughLastRedirect(trimmedCommand) \o Quote
        ELSE EchoDryRun \o trimmedCommand \o Quote

\* ------------------------------------------------------------- JSON values

\* A value of type `unknown`: its zod parsed type t and, by type, the text of
\* a string (s), the properties of an object (o) or the elements of an array (a).
NoProps == [k \in {} |-> 0]

Value(t, s, o, a) == [t |-> t, s |-> s, o |-> o, a |-> a]

Undef == Value("undefined", "", NoProps, <<>>)

Null == Value("null", "", NoProps, <<>>)

Num == Value("number", "", NoProps, <<>>)

Str(s) == Value("string", s, NoProps, <<>>)

Obj(o) == Value("object", "", o, <<>>)

Arr(a) == Value("array", "", NoProps, a)

\* data[key]
Get(v, key) == IF key \in DOMAIN v.o THEN v.o[key] ELSE Undef

\* ------------------------------------------------------------- the schemas

ZString == [kind |-> "string", min |-> 0, message |-> <<>>, datetime |-> FALSE]

\* z.string().min(1) and z.string().min(1, message)
ZStringMin1(message) == [kind |-> "string", min |-> 1, message |-> message, datetime |-> FALSE]

\* z.string().datetime()
ZDatetime == [kind |-> "string", min |-> 0, message |-> <<>>, datetime |-> TRUE]

ZLiteral(value) == [kind |-> "literal", value |-> value]

ZEnum(values) == [kind |-> "enum", values |-> values]

ZOptional(inner) == [kind |-> "optional", inner |-> inner]

ZObject(shape) == [kind |-> "object", shape |-> shape]

ZArray(element) == [kind |-> "array", element |-> element]

ZUnion(options) == [kind |-> "union", options |-> options]

Field(key, schema) == [key |-> key, schema |-> schema]

\* The file variant with content: z.string().min(1), as the other variants have it.
BoltActionSchemaFileContentMin1 ==
    ZUnion(<<
        ZObject(<<Field("type", ZLiteral("file")),
                  Field("filePath", ZStringMin1(<<>>)),
                  Field("content", ZStringMin1(<<>>))>>),
        ZObject(<<Field("type", ZLiteral("shell")),
                  Field("content", ZStringMin1(<<>>))>>),
        ZObject(<<Field("type", ZLiteral("start")),
                  Field("content", ZStringMin1(<<>>))>>),
        ZObject(<<Field("type", ZLiteral("build")),
                  Field("content", ZStringMin1(<<>>))>>),
        ZObject(<<Field("type", ZLiteral("supabase")),
                  Field("operation", ZEnum(<<"migration", "query">>)),
                  Field("content", ZStringMin1(<<>>)),
                  Field("filePath", ZOptional(ZString)),
                  Field("projectId", ZOptional(ZString))>>) >>)

BoltActionSchema ==
    ZUnion(<<
        ZObject(<<Field("type", ZLiteral("file")),
                  Field("filePath", ZStringMin1(<<>>)),
                  Field("content", ZString)>>),
        ZObject(<<Field("type", ZLiteral("shell")),
                  Field("content", ZStringMin1(<<>>))>>),
        ZObject(<<Field("type", ZLiteral("start")),
                  Field("content", ZStringMin1(<<>>))>>),
        ZObject(<<Field("type", ZLiteral("build")),
                  Field("content", ZStringMin1(<<>>))>>),
        ZObject(<<Field("type", ZLiteral("supabase")),
                  Field("operation", ZEnum(<<"migration", "query">>)),
                  Field("content", ZStringMin1(<<>>)),
                  Field("filePath", ZOptional(ZString)),
                  Field("projectId", ZOptional(ZString))>>) >>)

BoltArtifactSchema ==
    ZObject(<<Field("id", ZStringMin1(<<>>)),
              Field("title", ZStringMin1(<<>>)),
              Field("actions", ZArray(BoltActionSchema))>>)

LLMResponseSchema ==
    ZObject(<<Field("message", ZStringMin1(<<"Message cannot be empty">>)),
              Field("artifacts", ZOptional(ZArray(BoltArtifactSchema))),
              Field("metadata", ZOptional(ZObject(<<
                  Field("timestamp", ZOptional(ZDatetime)),
                  Field("responseType", ZOptional(ZEnum(<<"text", "artifact", "mixed">>))),
                  Field("executionMode", ZOptional(ZEnum(<<"immediate", "dry-run", "preview">>)))>>)))>>)

\* ------------------------------------------------- zod: parsing a value

\* Texts built at run time (template literals, join) are sequences of pieces.
Issue(code, path, message) == [code |-> code, path |-> path, message |-> message]

ParseReturn(status, value, issues) == [status |-> status, value |-> value, issues |-> issues]

OK(value) == ParseReturn("valid", value, <<>>)

\* zod's default error map for invalid_type.
InvalidType(expected, v, path) ==
    ParseReturn("aborted", Undef,
        <<Issue("invalid_type", path,
                IF v.t = "undefined" THEN <<"Required">>
                ELSE <<"Expected ">> \o expected \o <<", received ", v.t>>)>>)

\* util.joinValues: 'a' | 'b'
RECURSIVE JoinValues(_)
JoinValues(values) ==
    IF values = <<>> THEN <<>>
    ELSE <<"'", Head(values), "'">>
         \o (IF Len(values) > 1 THEN <<" | ">> ELSE <<>>) \o JoinValues(Tail(values))

\* The strings the datetime check of z.string().datetime() accepts, among those used.
IsDatetime(s) == s \in {"2024-01-01T00:00:00Z"}

\* ZodString._parse: a wrong type aborts; a failed check adds an issue and is dirty.
ParseString(schema, v, path) ==
    IF v.t # "string" THEN InvalidType(<<"string">>, v, path)
    ELSE IF schema.min = 1 /\ v.s = ""
    THEN ParseReturn("dirty", v,
            <<Issue("too_small", path,
                    IF schema.message # <<>> THEN schema.message
                    ELSE <<"String must contain at least 1 character(s)">>)>>)
    ELSE IF schema.datetime /\ ~IsDatetime(v.s)
    THEN ParseReturn("dirty", v, <<Issue("invalid_string", path, <<"Invalid datetime">>)>>)
    ELSE OK(v)

\* ZodLiteral._parse
ParseLiteral(schema, v, path) ==
    IF v.t = "string" /\ v.s = schema.value THEN OK(v)
    ELSE ParseReturn("aborted", Undef,
            <<Issue("invalid_literal", path,
                    <<"Invalid literal value, expected \"", schema.value, "\"">>)>>)

\* ZodEnum._parse
ParseEnum(schema, v, path) ==
    IF v.t # "string" THEN InvalidType(JoinValues(schema.values), v, path)
    ELSE IF \E i \in 1..Len(schema.values) : schema.values[i] = v.s THEN OK(v)
    ELSE ParseReturn("aborted", Undef,
            <<Issue("invalid_enum_value", path,
                    <<"Invalid enum value. Expected ">> \o JoinValues(schema.values)
                        \o <<", received '", v.s, "'">>)>>)

\* The issues of the results rs, in order.
RECURSIVE AllIssues(_)
AllIssues(rs) == IF rs = <<>> THEN <<>> ELSE Head(rs).issues \o AllIssues(Tail(rs))

\* ParseStatus.mergeArray / mergeObjectSync: aborted wins over dirty.
MergeStatus(rs) ==
    IF \E i \in 1..Len(rs) : rs[i].status = "aborted" THEN "aborted"
    ELSE IF \E i \in 1..Len(rs) : rs[i].status = "dirty" THEN "dirty"
    ELSE "valid"

\* An object schema in passthrough mode: the input's other properties are kept.
ObjectOutputPassthrough(shape, v, rs) ==
    LET known == {i \in 1..Len(shape) : rs[i].value.t # "undefined" \/ shape[i].key \in DOMAIN v.o}
        keys == {shape[i].key : i \in known} \cup DOMAIN v.o
    IN  Obj([k \in keys |->
                IF \E i \in known : shape[i].key = k
                THEN rs[CHOOSE i \in known : shape[i].key = k].value
                ELSE v.o[k]])

\* The object a ZodObject returns (unknownKeys: "strip"): the properties of
\* the shape that are set, with their parsed values.
ObjectOutput(shape, v, rs) ==
    LET known == {i \in 1..Len(shape) : rs[i].value.t # "undefined" \/ shape[i].key \in DOMAIN v.o}
    IN  Obj([k \in {shape[i].key : i \in known} |->
                rs[CHOOSE i \in known : shape[i].key = k].value])

\* ZodUnion._parse, given the results rs of its options in order: the first
\* valid one; else the first dirty one with its issues; else one
\* invalid_union issue at the union's own path.
UnionResult(rs, path) ==
    IF \E i \in 1..Len(rs) : rs[i].status = "valid"
    THEN rs[SetMin({i \in 1..Len(rs) : rs[i].status = "valid"})]
    ELSE IF \E i \in 1..Len(rs) : rs[i].status = "dirty"
    THEN rs[SetMin({i \in 1..Len(rs) : rs[i].status = "dirty"})]
    ELSE ParseReturn("aborted", Undef, <<Issue("invalid_union", path, <<"Invalid input">>)>>)

\* schema._parse({data: v, path})
RECURSIVE Parse(_, _, _)
Parse(schema, v, path) ==
    CASE schema.kind = "string" -> ParseString(schema, v, path)
      [] schema.kind = "literal" -> ParseLiteral(schema, v, path)
      [] schema.kind = "enum" -> ParseEnum(schema, v, path)
      [] schema.kind = "optional" ->
            IF v.t = "undefined" THEN OK(Undef) ELSE Parse(schema.inner, v, path)
      [] schema.kind = "object" ->
            IF v.t # "object" THEN InvalidType(<<"object">>, v, path)
            ELSE LET shape == schema.shape
                     rs == [i \in 1..Len(shape) |->
                              Parse(shape[i].schema, Get(v, shape[i].key),
                                    Append(path, shape[i].key))]
                     status == MergeStatus(rs)
                 IN  ParseReturn(status,
                                 IF status = "aborted" THEN Undef ELSE ObjectOutput(shape, v, rs),
                                 AllIssues(rs))
      [] schema.kind = "array" ->
            IF v.t # "array" THEN InvalidType(<<"array">>, v, path)
            ELSE LET rs == [i \in 1..Len(v.a) |->
                              Parse(schema.element, v.a[i], Append(path, ToString(i - 1)))]
                     status == MergeStatus(rs)
                 IN  ParseReturn(status,
                                 IF status = "aborted" THEN Undef
                                 ELSE Arr([i \in 1..Len(v.a) |-> rs[i].value]),
                                 AllIssues(rs))
      [] schema.kind = "union" ->
            UnionResult([i \in 1..Len(schema.options) |-> Parse(schema.options[i], v, path)],
                        path)

\* What a call does: it returns a value or throws.
Return(value) == [kind |-> "return", value |-> value]

Throw(name, message) == [kind |-> "throw", name |-> name, message |-> message]

\* schema.safeParse(data): zod's handleResult
ZodSafeParse(schema, data) ==
    LET r == Parse(schema, data, <<>>)
    IN  IF r.status = "valid" THEN Return([success |-> TRUE, data |-> r.value])
        ELSE IF r.issues = <<>>
        THEN Throw("Error", <<"Validation failed but no issues detected.">>)
        ELSE Return([success |-> FALSE, error |-> [errors |-> r.issues]])

\* schema.parse(data): the data, or the ZodError thrown
ZodParse(schema, data) ==
    LET r == ZodSafeParse(schema, data)
    IN  IF r.kind = "throw" THEN r
        ELSE IF r.value.success THEN Return(r.value.data)
        ELSE [kind |-> "throw", name |-> "ZodError", message |-> <<>>,
              errors |-> r.value.error.errors]

\* ---------------------------------------------------- LLMOutputValidator

\* Array.prototype.join
RECURSIVE Join(_, _)
Join(pieces, sep) ==
    IF pieces = <<>> THEN <<>>
    ELSE IF Len(pieces) = 1 THEN <<Head(pieces)>>
    ELSE <<Head(pieces), sep>> \o Join(Tail(pieces), sep)

\* errors.map(e => `${e.path.join('.')}: ${e.message}`).join('; ')
RECURSIVE JoinErrors(_)
JoinErrors(errors) ==
    IF errors = <<>> THEN <<>>
    ELSE Join(Head(errors).path, ".") \o <<": ">> \o Head(errors).message
         \o (IF Len(errors) > 1 THEN <<"; ">> ELSE <<>>) \o JoinErrors(Tail(errors))

\* The try/catch shared by validateAction, validateArtifact and validateResponse.
ValidateWith(schema, prefix, data) ==
    LET r == ZodParse(schema, data)
    IN  IF r.kind = "return" THEN r
        ELSE IF r.name = "ZodError" THEN Throw("Error", <<prefix>> \o JoinErrors(r.errors))
        ELSE r

validateAction(data) == ValidateWith(BoltActionSchema, "Invalid BoltAction: ", data)

validateArtifact(data) == ValidateWith(BoltArtifactSchema, "Invalid BoltArtifact: ", data)

validateResponse(data) == ValidateWith(LLMResponseSchema, "Invalid LLM Response: ", data)

\* safeParse written over schema.parse, with no catch.
safeParseOverParse(data, schema) ==
    LET r == ZodParse(schema, data)
    IN  IF r.kind = "throw" THEN r
        ELSE Return([success |-> TRUE, data |-> r.value])

safeParse(data, schema) ==
    LET result == ZodSafeParse(schema, data)
    IN  IF result.kind = "throw" THEN result
        ELSE IF result.value.success
        THEN Return([success |-> TRUE, data |-> result.value.data])
        ELSE Return([success |-> FALSE,
                     errors |-> [i \in 1..Len(result.value.error.errors) |->
                                    [path |-> Join(result.value.error.errors[i].path, "."),
                                     message |-> result.value.error.errors[i].message]]])

\* ------------------------------------------------------------------- inputs

\* The pieces commands are built from.
Tokens == {
    <<"r", "m", " ">>, <<"R", "M", " ">>, <<" ">>, <<"-", "r", "f", " ">>,
    <<"x">>, <<"/", "t">>, <<">">>, <<":">>,
    <<"m", "v", " ">>, <<"c", "p", " ">>, <<"d", "d", " ">>,
    <<"r", "m", "d", "i", "r", " ">>,
    <<"/", "d", "e", "v", "/", "n", "u", "l", "l">>,
    <<"\"">>, <<";">>, <<"$", "(">>, <<"\n">> }

RECURSIVE Concat(_)
Concat(ts) == IF ts = <<>> THEN <<>> ELSE Head(ts) \o Concat(Tail(ts))

Commands == {Concat(ts) : ts \in UNION {[1..n -> Tokens] : n \in 0..MaxTokens}}

Callers == 1..NumCallers

\* The commands the concurrent callers draw from.
CallerCommands == {
    <<"r", "m", " ", "-", "r", "f", " ", "x">>,
    <<"R", "M", " ", "x">>,
    <<">", "x">>,
    <<"m", "v", " ", "x", " ", "/", "d", "e", "v", "/", "n", "u", "l", "l">>,
    <<"n", "p", "m", " ", "i">> }

NoCall == [op |-> "none"]

\* The properties of an object literal: those of rec that are not undefined.
Literal(rec) == Obj([k \in {k \in DOMAIN rec : rec[k].t # "undefined"} |-> rec[k]])

\* Action inputs: every combination of these property values.
ActionInputs ==
    {Literal(rec) : rec \in
        [type : {Undef, Str("file"), Str("shell"), Str("start"), Str("build"),
                 Str("supabase"), Str("deploy")},
         filePath : {Undef, Str(""), Str("src/a.ts"), Num},
         content : {Undef, Str(""), Str("npm install")},
         operation : {Undef, Str("migration"), Str("query"), Str("drop")},
         projectId : {Undef, Str("p1")},
         extra : {Undef, Str("e")}]}

\* Values that are no records.
PrimitiveInputs == {Undef, Null, Num, Str("shell"), Arr(<<>>), Arr(<<Str("x")>>)}

\* The elements the actions arrays are built from: valid, empty filePath,
\* missing content, an extra property, not an object.
SampleActions == {
    Literal([type |-> Str("file"), filePath |-> Str("src/a.ts"), content |-> Str("")]),
    Literal([type |-> Str("file"), filePath |-> Str(""), content |-> Str("x")]),
    Literal([type |-> Str("shell")]),
    Literal([type |-> Str("shell"), content |-> Str("npm install"), extra |-> Str("e")]),
    Null }

SeqsUpTo(S, n) == UNION {[1..k -> S] : k \in 0..n}

ArtifactInputs ==
    {Literal(rec) : rec \in
        [id : {Undef, Str(""), Str("a1")},
         title : {Str(""), Str("Setup")},
         actions : {Undef, Str("none")} \cup {Arr(a) : a \in SeqsUpTo(SampleActions, MaxActions)}]}

\* The elements the artifacts arrays are built from.
SampleArtifacts == {
    Literal([id |-> Str("a1"), title |-> Str("Setup"),
             actions |-> Arr(<<Literal([type |-> Str("shell"), content |-> Str("npm install")])>>)]),
    Literal([id |-> Str(""), title |-> Str("Setup"), actions |-> Arr(<<>>)]),
    Literal([id |-> Str("a2"), title |-> Str("Setup"),
             actions |-> Arr(<<Literal([type |-> Str("start"), content |-> Str("npm run dev")]),
                               Literal([type |-> Str("shell")])>>)]),
    Null }

SampleMetadata == {
    Undef,
    Str("now"),
    Literal([timestamp |-> Str("2024-01-01T00:00:00Z"), responseType |-> Str("mixed"),
             executionMode |-> Str("dry-run")]),
    Literal([timestamp |-> Str("yesterday"), responseType |-> Undef, executionMode |-> Undef]),
    Literal([timestamp |-> Undef, responseType |-> Str("html"), executionMode |-> Undef]) }

ResponseInputs ==
    {Literal(rec) : rec \in
        [message : {Undef, Str(""), Str("Done")},
         artifacts : {Undef} \cup {Arr(a) : a \in SeqsUpTo(SampleArtifacts, MaxArtifacts)},
         metadata : SampleMetadata]}

ValidatorInputs == ActionInputs \cup PrimitiveInputs \cup ArtifactInputs \cup ResponseInputs

\* ------------------------------------------------- Spec: one call on a command

Init ==
    /\ patternTable = DESTRUCTIVE_COMMAND_PATTERNS
    /\ command \in Commands
    /\ call = NoCall
    /\ callerCall = [c \in Callers |-> NoCall]
    /\ rawData = Undef
    /\ validation = NoCall

CallIsDestructiveCommand ==
    /\ call' = [op |-> "isDestructiveCommand",
                result |-> isDestructiveCommand(patternTable, command)]
    /\ UNCHANGED <<patternTable, command, callerCall, rawData, validation>>

CallMakeDryRunSafe ==
    /\ call' = [op |-> "makeDryRunSafe", result |-> makeDryRunSafe(command)]
    /\ UNCHANGED <<patternTable, command, callerCall, rawData, validation>>

CallValidateCommand ==
    /\ call' = [op |-> "validateCommand",
                result |-> validateCommand(patternTable, command)]
    /\ UNCHANGED <<patternTable, command, callerCall, rawData, validation>>

Next ==
    \/ CallIsDestructiveCommand
    \/ CallMakeDryRunSafe
    \/ CallValidateCommand

Spec == Init /\ [][Next]_vars

\* ------------------------------------- SpecCallers: any number of callers

InitCallers ==
    /\ patternTable = DESTRUCTIVE_COMMAND_PATTERNS
    /\ command = <<>>
    /\ call = NoCall
    /\ callerCall = [c \in Callers |-> NoCall]
    /\ rawData = Undef
    /\ validation = NoCall

\* A call whose loop runs over DESTRUCTIVE_COMMAND_PATTERNS.reverse(), which
\* reverses the shared array in place.
CallerIsDestructiveCommandReversing(c, cmd) ==
    /\ patternTable' = [i \in 1..Len(patternTable) |-> patternTable[Len(patternTable) + 1 - i]]
    /\ callerCall' = [callerCall EXCEPT ![c] =
           [op |-> "isDestructiveCommand", command |-> cmd,
            result |-> isDestructiveCommand(patternTable', cmd)]]
    /\ UNCHANGED <<command, call, rawData, validation>>

\* Caller c runs isDestructiveCommand(cmd) to completion.
CallerIsDestructiveCommand(c, cmd) ==
    /\ callerCall' = [callerCall EXCEPT ![c] =
           [op |-> "isDestructiveCommand", command |-> cmd,
            result |-> isDestructiveCommand(patternTable, cmd)]]
    /\ UNCHANGED <<patternTable, command, call, rawData, validation>>

\* Caller c runs DryRunValidator.makeDryRunSafe(cmd) to completion.
CallerMakeDryRunSafe(c, cmd) ==
    /\ callerCall' = [callerCall EXCEPT ![c] =
           [op |-> "makeDryRunSafe", command |-> cmd, result |-> makeDryRunSafe(cmd)]]
    /\ UNCHANGED <<patternTable, command, call, rawData, validation>>

\* Caller c runs DryRunValidator.validateCommand(cmd) to completion.
CallerValidateCommand(c, cmd) ==
    /\ callerCall' = [callerCall EXCEPT ![c] =
           [op |-> "validateCommand", command |-> cmd,
            result |-> validateCommand(patternTable, cmd)]]
    /\ UNCHANGED <<patternTable, command, call, rawData, validation>>

NextCallers ==
    \E c \in Callers, cmd \in CallerCommands :
        \/ CallerIsDestructiveCommand(c, cmd)
        \/ CallerMakeDryRunSafe(c, cmd)
        \/ CallerValidateCommand(c, cmd)

SpecCallers == InitCallers /\ [][NextCallers]_vars

\* ------------------------------ SpecValidator: one value, the entry points

InitValidator ==
    /\ patternTable = DESTRUCTIVE_COMMAND_PATTERNS
    /\ command = <<>>
    /\ call = NoCall
    /\ callerCall = [c \in Callers |-> NoCall]
    /\ rawData \in ValidatorInputs
    /\ validation = NoCall

SchemaNamed(name) ==
    CASE name = "BoltActionSchema" -> BoltActionSchema
      [] name = "BoltArtifactSchema" -> BoltArtifactSchema
      [] name = "LLMResponseSchema" -> LLMResponseSchema

SchemaNames == {"BoltActionSchema", "BoltArtifactSchema", "LLMResponseSchema"}

CallValidateAction ==
    /\ validation' = [op |-> "validateAction", schema |-> "BoltActionSchema",
                      outcome |-> validateAction(rawData)]
    /\ UNCHANGED <<patternTable, command, call, callerCall, rawData>>

CallValidateArtifact ==
    /\ validation' = [op |-> "validateArtifact", schema |-> "BoltArtifactSchema",
                      outcome |-> validateArtifact(rawData)]
    /\ UNCHANGED <<patternTable, command, call, callerCall, rawData>>

CallValidateResponse ==
    /\ validation' = [op |-> "validateResponse", schema |-> "LLMResponseSchema",
                      outcome |-> validateResponse(rawData)]
    /\ UNCHANGED <<patternTable, command, call, callerCall, rawData>>

CallSafeParse ==
    /\ \E name \in SchemaNames :
          validation' = [op |-> "safeParse", schema |-> name,
                         outcome |-> safeParse(rawData, SchemaNamed(name))]
    /\ UNCHANGED <<patternTable, command, call, callerCall, rawData>>

NextValidator ==
    \/ CallValidateAction
    \/ CallValidateArtifact
    \/ CallValidateResponse
    \/ CallSafeParse

SpecValidator == InitValidator /\ [][NextValidator]_vars

\* ------------------------------------------------------------------ claims

\* The entries of the table that match the trimmed, lowercased command.
MatchingEntries(cmd) ==
    {i \in 1..Len(DESTRUCTIVE_COMMAND_PATTERNS) :
        test(DESTRUCTIVE_COMMAND_PATTERNS[i].pattern, toLowerCase(trim(cmd)))}

\* C1: isDestructiveCommand returns the reason and severity of the matching
\* entry with the smallest table index, and not-destructive when no entry
\* matches the trimmed, lowercased command.
C1_FirstMatchWins ==
    call.op = "isDestructiveCommand" =>
        LET M == MatchingEntries(command)
        IN  IF M = {}
            THEN call.result = [isDestructive |-> FALSE]
            ELSE call.result =
                    [isDestructive |-> TRUE,
                     reason |-> DESTRUCTIVE_COMMAND_PATTERNS[SetMin(M)].reason,
                     severity |-> DESTRUCTIVE_COMMAND_PATTERNS[SetMin(M)].severity]

\* A command matching two entries of different severity has been classified
\* (for instance ">mv /dev/null": entries 5 and 7).
C1_Witness ==
    /\ call.op = "isDestructiveCommand"
    /\ \E i, j \in MatchingEntries(command) :
          /\ i < j
          /\ DESTRUCTIVE_COMMAND_PATTERNS[i].severity # DESTRUCTIVE_COMMAND_PATTERNS[j].severity
          /\ call.result.severity = DESTRUCTIVE_COMMAND_PATTERNS[i].severity

\* How a POSIX shell reads the text of s from position i on, inside a
\* double-quoted word: where the word closes, or what it runs before that.
RECURSIVE ScanDoubleQuoted(_, _)
ScanDoubleQuoted(s, i) ==
    IF i > Len(s) THEN "unterminated"
    ELSE IF s[i] = "\\" THEN ScanDoubleQuoted(s, i + 2)
    ELSE IF s[i] = "\"" THEN (IF i = Len(s) THEN "closed at end" ELSE "closed early")
    ELSE IF HasAt(s, i, <<"$", "(">>) THEN "command substitution"
    ELSE ScanDoubleQuoted(s, i + 1)

\* s is one echo of one double-quoted word and nothing else.
IsSingleQuotedEcho(s) ==
    /\ HasAt(s, 1, <<"e", "c", "h", "o", " ", "\"">>)
    /\ ScanDoubleQuoted(s, 7) = "closed at end"

\* C5: the output of makeDryRunSafe is a single non-executing statement: all
\* text of the command stays inside the quoted argument of the one echo.
C5_DryRunIsSingleEcho ==
    call.op = "makeDryRunSafe" => IsSingleQuotedEcho(call.result)

\* C6: for a destructive command, validateCommand(c).dryRunCommand equals
\* makeDryRunSafe(c).
C6_SubstituteIsMakeDryRunSafe ==
    (call.op = "validateCommand" /\ call.result.isDestructive) =>
        call.result.dryRunCommand = makeDryRunSafe(command)

\* C7: the report of validateCommand has isDryRun = true, carries the command
\* unchanged, agrees with isDestructiveCommand on isDestructive and reason,
\* and has warning and dryRunCommand exactly when destructive, the warning
\* embedding the upper-cased severity and the reason.
C7_ReportAgreesWithClassifier ==
    call.op = "validateCommand" =>
        LET r == call.result
            c == isDestructiveCommand(DESTRUCTIVE_COMMAND_PATTERNS, command)
        IN  /\ r.isDryRun = TRUE
            /\ r.command = command
            /\ r.isDestructive = c.isDestructive
            /\ r.reason = (IF c.isDestructive THEN c.reason ELSE Undefined)
            /\ ("warning" \in DOMAIN r) <=> c.isDestructive
            /\ ("dryRunCommand" \in DOMAIN r) <=> c.isDestructive
            /\ c.isDestructive =>
                  /\ Len(r.warning) = 4
                  /\ c.severity = "critical" => r.warning[2] = "CRITICAL"
                  /\ c.severity = "high" => r.warning[2] = "HIGH"
                  /\ r.warning[2] \in {"CRITICAL", "HIGH"}
                  /\ r.warning[4] = c.reason

\* A destructive command of severity high, with surrounding blanks the
\* report must keep, has been reported.
C7_Witness ==
    /\ call.op = "validateCommand"
    /\ call.result.isDestructive
    /\ call.result.warning[2] = "HIGH"
    /\ command # trim(command)

\* C10: the pattern table keeps its entries and their order, and every
\* caller's result is the one its own argument yields from the initial table,
\* whatever the other calls were.
C10_Stateless ==
    /\ patternTable = DESTRUCTIVE_COMMAND_PATTERNS
    /\ \A c \in Callers :
          LET k == callerCall[c]
          IN  /\ k.op = "isDestructiveCommand" =>
                    k.result = isDestructiveCommand(DESTRUCTIVE_COMMAND_PATTERNS, k.command)
              /\ k.op = "makeDryRunSafe" => k.result = makeDryRunSafe(k.command)
              /\ k.op = "validateCommand" =>
                    k.result = validateCommand(DESTRUCTIVE_COMMAND_PATTERNS, k.command)
    /\ \A c, d \in Callers :
          (callerCall[c].op = callerCall[d].op /\ callerCall[c].op # "none"
              /\ callerCall[c].command = callerCall[d].command)
              => callerCall[c].result = callerCall[d].result

\* Two callers have classified the same command that matches several entries,
\* after calls of the other operations.
C10_Witness ==
    \E c, d \in Callers :
        /\ c # d
        /\ callerCall[c].op = "isDestructiveCommand"
        /\ callerCall[d].op = "isDestructiveCommand"
        /\ callerCall[c].command = callerCall[d].command
        /\ Cardinality(MatchingEntries(callerCall[c].command)) > 1
        /\ callerCall[c].result.isDestructive

\* -------------------------------------------- claims on the validator

\* The Action data model as the specification tabulates it.
ActionKinds == {"file", "shell", "start", "build", "supabase"}

RequiredFields(kind) ==
    CASE kind = "file" -> {"filePath", "content"}
      [] kind \in {"shell", "start", "build"} -> {"content"}
      [] kind = "supabase" -> {"operation", "content"}

DeclaredFields(kind) ==
    {"type"} \cup RequiredFields(kind)
        \cup (IF kind = "supabase" THEN {"filePath", "projectId"} ELSE {})

\* v is a record whose type tag is one of the five kinds.
HasKnownKind(v) ==
    /\ v.t = "object"
    /\ Get(v, "type").t = "string"
    /\ Get(v, "type").s \in ActionKinds

KindOf(v) == Get(v, "type").s

\* The property `key` of v, where set, satisfies the constraint of its variant.
WellFormedField(v, key) ==
    LET f == Get(v, key)
    IN  CASE key = "type" -> TRUE
          [] key = "content" -> f.t = "string" /\ (KindOf(v) = "file" \/ f.s # "")
          [] key = "filePath" -> f.t = "string" /\ (KindOf(v) # "file" \/ f.s # "")
          [] key = "operation" -> f.t = "string" /\ f.s \in {"migration", "query"}
          [] key = "projectId" -> f.t = "string"
          [] OTHER -> TRUE

\* A valid construction of an Action variant: exactly its declared fields,
\* the required ones set, each within its constraint.
IsValidConstruction(v) ==
    /\ HasKnownKind(v)
    /\ DOMAIN v.o \subseteq DeclaredFields(KindOf(v))
    /\ RequiredFields(KindOf(v)) \subseteq DOMAIN v.o
    /\ \A key \in DOMAIN v.o : WellFormedField(v, key)

\* v without the properties its variant does not declare.
DeclaredPart(v) == Obj([k \in DOMAIN v.o \cap DeclaredFields(KindOf(v)) |-> v.o[k]])

IsActionCall ==
    \/ validation.op = "validateAction"
    \/ validation.op = "safeParse" /\ validation.schema = "BoltActionSchema"

\* The call accepted its input: validateX returned, safeParse returned success.
Accepted ==
    /\ validation.outcome.kind = "return"
    /\ validation.op = "safeParse" => validation.outcome.value.success

\* The call rejected its input: validateX threw, safeParse returned a failure.
Rejected ==
    IF validation.op = "safeParse"
    THEN validation.outcome.kind = "return" /\ ~validation.outcome.value.success
    ELSE validation.outcome.kind = "throw"

\* The value the call handed back on acceptance.
AcceptedValue ==
    IF validation.op = "safeParse"
    THEN validation.outcome.value.data
    ELSE validation.outcome.value

\* The rejection reports an entry whose dotted path is `path`: in the errors
\* of safeParse, or as "<path>: " in the message of the throwing entry point.
ReportsPath(path) ==
    IF validation.op = "safeParse"
    THEN \E i \in 1..Len(validation.outcome.value.errors) :
            validation.outcome.value.errors[i].path = path
    ELSE LET m == validation.outcome.message
         IN  \E i \in 2..Len(m) :
                /\ i + Len(path) <= Len(m)
                /\ SubSeq(m, i, i + Len(path) - 1) = path
                /\ m[i + Len(path)] = ": "
                /\ m[i - 1] \in {"; ", "Invalid BoltAction: ", "Invalid BoltArtifact: ",
                                 "Invalid LLM Response: "}

\* C2: an Action input of a known kind from which one required field is
\* missing is rejected, and the error list has an entry whose path names
\* that field.
C2_MissingFieldIsNamed ==
    (IsActionCall /\ HasKnownKind(rawData)
        /\ DOMAIN rawData.o \subseteq DeclaredFields(KindOf(rawData))
        /\ \A key \in DOMAIN rawData.o : WellFormedField(rawData, key))
    => \A f \in RequiredFields(KindOf(rawData)) :
          (RequiredFields(KindOf(rawData)) \ DOMAIN rawData.o = {f})
              => Rejected /\ ReportsPath(<<f>>)

\* C3 as stated: an Action input carrying a field its variant does not
\* declare is rejected by validateAction and by safeParse.
C3_UndeclaredFieldRejected ==
    (IsActionCall /\ HasKnownKind(rawData)
        /\ DOMAIN rawData.o \ DeclaredFields(KindOf(rawData)) # {})
    => Rejected

\* C3 amended: an Action input carrying fields its variant does not declare
\* is accepted whenever its declared fields form a valid construction, and the
\* value returned is the input without the undeclared fields.
C3_UndeclaredFieldStripped ==
    (IsActionCall /\ HasKnownKind(rawData)
        /\ DOMAIN rawData.o \ DeclaredFields(KindOf(rawData)) # {}
        /\ IsValidConstruction(DeclaredPart(rawData)))
    => Accepted /\ AcceptedValue = DeclaredPart(rawData)

\* A shell action with an extra filePath and an unknown key has been
\* validated: it was accepted and the value returned has neither.
C3_Witness ==
    /\ validation.op = "validateAction"
    /\ HasKnownKind(rawData)
    /\ KindOf(rawData) = "shell"
    /\ {"filePath", "extra"} \subseteq DOMAIN rawData.o
    /\ Accepted
    /\ DOMAIN AcceptedValue.o = {"type", "content"}

\* C4: validateAction returns, for every valid construction of a variant, a
\* value equal to the input, and raises nothing.
C4_ValidConstructionReturned ==
    (validation.op = "validateAction" /\ IsValidConstruction(rawData))
    => validation.outcome = Return(rawData)

\* A supabase action without filePath and projectId has been validated.
C4_Witness ==
    /\ validation.op = "validateAction"
    /\ IsValidConstruction(rawData)
    /\ KindOf(rawData) = "supabase"
    /\ DOMAIN rawData.o = {"type", "operation", "content"}
    /\ validation.outcome.kind = "return"

\* The fields of the action v that violate its variant: the required ones
\* that are missing and the set ones outside their constraint.
ViolatingFields(v) ==
    (RequiredFields(KindOf(v)) \ DOMAIN v.o)
        \cup {key \in DOMAIN v.o \cap DeclaredFields(KindOf(v)) : ~WellFormedField(v, key)}

\* C8: for an Artifact input with invalid elements in its actions array, the
\* error list has, for each failing element, an entry whose dotted path is
\* that element's index followed by the violating field (actions.2.filePath).
C8_EachElementFieldReported ==
    ((validation.op = "validateArtifact"
        \/ (validation.op = "safeParse" /\ validation.schema = "BoltArtifactSchema"))
      /\ rawData.t = "object" /\ Get(rawData, "actions").t = "array")
    => \A i \in 1..Len(Get(rawData, "actions").a) :
          LET e == Get(rawData, "actions").a[i]
          IN  HasKnownKind(e) =>
                \A f \in ViolatingFields(e) :
                    Rejected /\ ReportsPath(<<"actions", ".", ToString(i - 1), ".", f>>)

IsSafeParseCall == validation.op = "safeParse"

\* The throwing entry point of the schema the safeParse call was given.
ThrowingEntryPoint(name, v) ==
    CASE name = "BoltActionSchema" -> validateAction(v)
      [] name = "BoltArtifactSchema" -> validateArtifact(v)
      [] name = "LLMResponseSchema" -> validateResponse(v)

\* C9: safeParse never throws: it returns success with the data, or a failure
\* with a non-empty list of (path, message) entries, and it returns success
\* exactly when the throwing entry point of the same schema returns.
C9_SafeParseNeverThrows ==
    IsSafeParseCall =>
        LET out == validation.outcome
        IN  /\ out.kind = "return"
            /\ out.value.success =>
                  /\ DOMAIN out.value = {"success", "data"}
                  /\ ThrowingEntryPoint(validation.schema, rawData) = Return(out.value.data)
            /\ ~out.value.success =>
                  /\ DOMAIN out.value = {"success", "errors"}
                  /\ Len(out.value.errors) >= 1
                  /\ \A i \in 1..Len(out.value.errors) :
                        DOMAIN out.value.errors[i] = {"path", "message"}
                  /\ ThrowingEntryPoint(validation.schema, rawData).kind = "throw"

\* safeParse has been given a value that is no record (null, a number, a
\* string, an array) and returned a failure.
C9_Witness ==
    /\ IsSafeParseCall
    /\ rawData.t \in {"null", "number", "string", "array"}
    /\ validation.outcome.kind = "return"
    /\ ~validation.outcome.value.success
    /\ Len(validation.outcome.value.errors) >= 1

\* ------------------------------------------------- the shadowed table entries

\* The command, trimmed and lowercased, is the verb rm, blanks, and a flag
\* that starts with -r.
BeginsWithRmRecursive(cmd) ==
    LET t == toLowerCase(trim(cmd))
    IN  /\ HasAt(t, 1, <<"r", "m">>)
        /\ Len(t) >= 3
        /\ IsSpace(t[3])
        /\ HasAt(t, SkipSpace(t, 3), <<"-", "r">>)

\* C11: isDestructiveCommand never returns the reason of the 'rm -r' or the
\* 'rm -rf' entry, and every command beginning with rm -r or rm -rf is
\* classified destructive, severity critical, with the reason of the first
\* entry, 'rm command (file deletion)'.
C11_RmShadowsRecursive ==
    call.op = "isDestructiveCommand" =>
        /\ Prop(call.result, "reason") \notin
              {"rm -r command (recursive deletion)",
               "rm -rf command (force recursive deletion)"}
        /\ BeginsWithRmRecursive(command) =>
              call.result = [isDestructive |-> TRUE,
                             reason |-> "rm command (file deletion)",
                             severity |-> "critical"]

\* A command that the 'rm -rf' entry matches too, written in upper case,
\* has been classified.
C11_Witness ==
    /\ call.op = "isDestructiveCommand"
    /\ HasAt(command, 1, <<"R", "M", " ", "-", "r", "f", " ">>)
    /\ test("^\\s*rm\\s+-rf", toLowerCase(trim(command)))
    /\ test("^\\s*rm\\s+-r", toLowerCase(trim(command)))
    /\ call.result.isDestructive

\* ------------------------------------------------- the targets of an rm command

\* Position after the run of non-blank characters that starts at position i.
SkipNonSpace(s, i) ==
    LET stop == {j \in i..Len(s) : IsSpace(s[j])}
    IN  IF stop = {} THEN Len(s) + 1 ELSE SetMin(stop)

\* Position of the first token at or after position i that is not a flag
\* (a flag token starts with "-"); i is the start of a token or the end of s.
RECURSIVE SkipFlagTokens(_, _)
SkipFlagTokens(s, i) ==
    IF i <= Len(s) /\ s[i] = "-"
    THEN SkipFlagTokens(s, SkipSpace(s, SkipNonSpace(s, i)))
    ELSE i

\* The text of the trimmed command from its first target on.
RmTargets(cmd) ==
    LET t == trim(cmd)
    IN  From(t, SkipFlagTokens(t, SkipSpace(t, 3)))

\* The command is the verb rm, zero or more flag tokens, and at least one target.
IsRmWithTargets(cmd) ==
    LET t == trim(cmd)
    IN  /\ HasAt(t, 1, <<"r", "m">>)
        /\ Len(t) >= 3
        /\ IsSpace(t[3])
        /\ RmTargets(cmd) # <<>>

\* C12: for a command made of the rm verb, zero or more flag tokens and one
\* or more targets, makeDryRunSafe displays after 'Would delete: ' exactly
\* the targets: verb and flags stripped, no part of a target removed.
C12_DeletePreviewShowsTargets ==
    (call.op = "makeDryRunSafe" /\ IsRmWithTargets(command)) =>
        call.result = EchoWouldDelete \o RmTargets(command) \o Quote

\* ------------------------------------------------- the order of the category rules

\* The text t begins with the verb followed by a blank.
BeginsWithVerb(t, verb) ==
    /\ HasAt(t, 1, verb)
    /\ Len(t) > Len(verb)
    /\ IsSpace(t[Len(verb) + 1])

\* The text of t that follows its last ">", without the blanks leading it.
AfterLastRedirect(t) ==
    LET redirects == {j \in 1..Len(t) : t[j] = ">"}
    IN  From(t, SkipSpace(t, SetMax(redirects) + 1))

\* r is a delete preview: the 'Would delete: ' echo, closed by a quote.
IsDeletePreview(r) ==
    /\ HasAt(r, 1, EchoWouldDelete)
    /\ Len(r) > Len(EchoWouldDelete)
    /\ r[Len(r)] = "\""

\* C13: makeDryRunSafe applies its rules top to bottom, first match wins: a
\* command beginning with rm gets the delete preview, even with a ">" in
\* it; otherwise one beginning with cp gets the copy preview and one
\* beginning with mv the move preview, followed by the full command, even
\* with a ">" in it; otherwise one containing ">" gets the truncate/write
\* preview of the text following the last ">"; otherwise the generic
\* dry-run echo of the whole command is produced.
C13_RulesTopToBottom ==
    call.op = "makeDryRunSafe" =>
        LET t == trim(command)
            r == call.result
        IN  IF BeginsWithVerb(t, <<"r", "m">>)
            THEN IsDeletePreview(r)
            ELSE IF BeginsWithVerb(t, <<"c", "p">>)
            THEN r = EchoWouldCopy \o t \o Quote
            ELSE IF BeginsWithVerb(t, <<"m", "v">>)
            THEN r = EchoWouldMove \o t \o Quote
            ELSE IF \E j \in 1..Len(t) : t[j] = ">"
            THEN r = EchoWouldTruncate \o AfterLastRedirect(t) \o Quote
            ELSE r = EchoDryRun \o t \o Quote

====
